---- MODULE Spec2Model ----
(***************************************************************************)
(* CVScanPro: resume shortlisting.  A job description and a batch of       *)
(* resumes are normalized (text_processor.py), entities are extracted      *)
(* (entity_extractor.py), each document is encoded against a process-wide  *)
(* TF-IDF vocabulary (embeddings.py), and the resumes are scored and       *)
(* ranked against the job (ranker.py); app.py drives the pipeline.         *)
(*                                                                         *)
(* Texts are TLA+ strings, handled character by character with Len,        *)
(* SubSeq, Head, Tail and \o.  Python floats are modelled by exact         *)
(* rationals <<numerator, denominator>> in lowest terms.                   *)
(***************************************************************************)
EXTENDS Integers, Sequences, FiniteSets, TLC

VARIABLES
    call,               \* the call of a scoring function under examination
    vectorizer,         \* embeddings.py: the module global, None until load_model
    hash_order,         \* the order in which this process lists a set of strings
    session_state,      \* st.session_state of the browser session
    pc,                 \* where the run of main() stands
    main_job_description, \* main: the text of the text area
    uploaded_files,     \* main: the files of the uploader
    processed_jd,       \* main: what process_job_description returned
    main_parsed_resumes, \* process_resumes: the list built so far
    file_index,         \* process_resumes: the next file of the loop
    errors,             \* the st.error messages of this run
    main_ranked_resumes, \* main: what rank_resumes returned
    encoded,            \* the get_embedding call of the last step, if it made one
    encode_failures,    \* the files of this run whose encoding raised inside get_embedding
    vectorizer_at_start \* the vectorizer as the run found it

appvars == <<vectorizer, hash_order, session_state, pc, main_job_description, uploaded_files,
             processed_jd, main_parsed_resumes, file_index, errors, main_ranked_resumes, encoded,
             encode_failures, vectorizer_at_start>>

vars == <<call, appvars>>

-----------------------------------------------------------------------------
(* Strings *)

UpperChars == "ABCDEFGHIJKLMNOPQRSTUVWXYZ"
LowerChars == "abcdefghijklmnopqrstuvwxyz"
DigitChars == "0123456789"

CharAt(s, i) == SubSeq(s, i, i)

\* the 1-based position of character c in s, 0 when absent
IndexOf(c, s) ==
    IF \E i \in 1..Len(s) : CharAt(s, i) = c
    THEN CHOOSE i \in 1..Len(s) : CharAt(s, i) = c /\ \A j \in 1..(i-1) : CharAt(s, j) # c
    ELSE 0

LowerChar(c) ==
    LET i == IndexOf(c, UpperChars) IN IF i = 0 THEN c ELSE CharAt(LowerChars, i)

RECURSIVE Lower(_)
\* str.lower(), the string taken by halves
Lower(s) ==
    IF Len(s) <= 1 THEN LowerChar(s)
    ELSE LET h == Len(s) \div 2
         IN  Lower(SubSeq(s, 1, h)) \o Lower(SubSeq(s, h + 1, Len(s)))

\* Python's  a in b  on strings
Contains(a, b) ==
    \E i \in 0..(Len(b) - Len(a)) : SubSeq(b, i + 1, i + Len(a)) = a

\* [f(x) for x in xs]
MapLower(xs) == [i \in 1..Len(xs) |-> Lower(xs[i])]

-----------------------------------------------------------------------------
(* Rationals standing for Python floats *)

RECURSIVE GCD(_, _)
GCD(a, b) == IF b = 0 THEN a ELSE GCD(b, a % b)

\* n / d, for n >= 0 and d > 0
Frac(n, d) == LET g == GCD(n, d) IN <<n \div g, d \div g>>

RAdd(x, y) == Frac(x[1] * y[2] + y[1] * x[2], x[2] * y[2])
RMul(x, y) == Frac(x[1] * y[1], x[2] * y[2])
RLe(x, y)  == x[1] * y[2] <= y[1] * x[2]
RLt(x, y)  == x[1] * y[2] < y[1] * x[2]
RMin(x, y) == IF RLe(x, y) THEN x ELSE y
RMax(x, y) == IF RLe(x, y) THEN y ELSE x
Zero == <<0, 1>>
One  == <<1, 1>>

-----------------------------------------------------------------------------
(* ranker.py: the three entity scores *)

\* a in b or b in a
EitherContains(a, b) == Contains(a, b) \/ Contains(b, a)

\* calculate_skills_match matching in one direction only (job skill in resume skill)
calculate_skills_match_one_way(job_skills, resume_skills) ==
    IF job_skills = <<>> \/ resume_skills = <<>> THEN Zero
    ELSE Frac(Cardinality({i \in 1..Len(job_skills) :
                 \E k \in 1..Len(resume_skills) :
                     Contains(Lower(job_skills[i]), Lower(resume_skills[k]))}),
              Len(job_skills))

calculate_skills_match(job_skills, resume_skills) ==
    IF job_skills = <<>> THEN Zero
    ELSE IF resume_skills = <<>> THEN Zero
    ELSE LET job_skills_lower    == MapLower(job_skills)
             resume_skills_lower == MapLower(resume_skills)
             matching_skills ==
                 Cardinality({i \in 1..Len(job_skills_lower) :
                     \E k \in 1..Len(resume_skills_lower) :
                         EitherContains(job_skills_lower[i], resume_skills_lower[k])})
         IN  Frac(matching_skills, Len(job_skills))

education_keywords == <<"bachelor", "master", "phd", "degree", "diploma", "certificate">>

\* the keyword loop of one (job_edu, resume_edu) pair: it adds 0.5 once
SharesKeyword(job_edu, resume_edu) ==
    \E k \in 1..Len(education_keywords) :
        Contains(education_keywords[k], job_edu) /\ Contains(education_keywords[k], resume_edu)

RECURSIVE EducationInner(_, _, _, _)
\* the loop over resume_edu_lower for one job_edu, from index k on; halves
\* counts the points in units of 0.5.  A substring match adds 1 and breaks;
\* a shared keyword adds 0.5 and the loop goes on to the next resume_edu.
EducationInner(job_edu, resume_edu_lower, k, halves) ==
    IF k > Len(resume_edu_lower) THEN halves
    ELSE IF EitherContains(job_edu, resume_edu_lower[k]) THEN halves + 2
    ELSE IF SharesKeyword(job_edu, resume_edu_lower[k])
         THEN EducationInner(job_edu, resume_edu_lower, k + 1, halves + 1)
         ELSE EducationInner(job_edu, resume_edu_lower, k + 1, halves)

RECURSIVE EducationOuter(_, _, _, _)
\* the loop over job_edu_lower, from index i on
EducationOuter(job_edu_lower, resume_edu_lower, i, halves) ==
    IF i > Len(job_edu_lower) THEN halves
    ELSE EducationOuter(job_edu_lower, resume_edu_lower, i + 1,
             EducationInner(job_edu_lower[i], resume_edu_lower, 1, halves))

\* calculate_education_match without the clamp min(1.0, ...)
calculate_education_match_unclamped(job_education, resume_education) ==
    IF job_education = <<>> THEN One
    ELSE IF resume_education = <<>> THEN Zero
    ELSE Frac(EducationOuter(MapLower(job_education), MapLower(resume_education), 1, 0),
              2 * Len(job_education))

calculate_education_match(job_education, resume_education) ==
    IF job_education = <<>> THEN One
    ELSE IF resume_education = <<>> THEN Zero
    ELSE LET halves == EducationOuter(MapLower(job_education), MapLower(resume_education), 1, 0)
         IN  RMin(One, Frac(halves, 2 * Len(job_education)))

-----------------------------------------------------------------------------
(* The pattern (\d+)[\+]?\s*(year|yr|years|yrs) of ranker.py and            *)
(* entity_extractor.py, matched as re.findall matches it.                  *)

\* the character at position i, "" outside the string
SafeChar(s, i) == IF i >= 1 /\ i <= Len(s) THEN SubSeq(s, i, i) ELSE ""

IsDigit(c) == c # "" /\ Contains(c, DigitChars)
IsSpace(c) == c \in {" ", "\t", "\n", "\r", "\f"}

StartsWithAt(s, i, p) ==
    i >= 1 /\ i + Len(p) - 1 <= Len(s) /\ SubSeq(s, i, i + Len(p) - 1) = p

\* the least position from i on, up to Len(s) + 1, that is not in the set In
RunEnd(s, i, In) ==
    CHOOSE e \in i..(Len(s) + 1) : e \notin In /\ \A k \in i..(e - 1) : k \in In

\* \d+ from position i: the position after the last digit of the run
DigitRunEnd(s, i) == RunEnd(s, i, {k \in i..Len(s) : IsDigit(SafeChar(s, k))})

\* \s* from position i
SpaceRunEnd(s, i) == RunEnd(s, i, {k \in i..Len(s) : IsSpace(SafeChar(s, k))})

\* the least member of a non-empty set of positions
First(S) == CHOOSE j \in S : \A k \in S : j <= k

NoMatch == [ok |-> FALSE, year |-> "", unit |-> "", end |-> 0]

\* the match of the pattern that starts at position i, if there is one.  The
\* alternatives are tried in the order year, yr, years, yrs, so the unit
\* captured is "year" or "yr" and never the plural.
YearsMatchAt(s, i) ==
    LET j == DigitRunEnd(s, i)
        k == IF SafeChar(s, j) = "+" THEN j + 1 ELSE j
        m == SpaceRunEnd(s, k)
    IN  IF j = i THEN NoMatch
        ELSE IF StartsWithAt(s, m, "year")
             THEN [ok |-> TRUE, year |-> SubSeq(s, i, j - 1), unit |-> "year", end |-> m + 4]
        ELSE IF StartsWithAt(s, m, "yr")
             THEN [ok |-> TRUE, year |-> SubSeq(s, i, j - 1), unit |-> "yr", end |-> m + 2]
        ELSE NoMatch

RECURSIVE FindYears(_, _)
\* re.findall(pattern, s) scanning from position i: the non-overlapping
\* matches from left to right
FindYears(s, i) ==
    LET starts == {j \in i..Len(s) : YearsMatchAt(s, j).ok}
    IN  IF starts = {} THEN <<>>
        ELSE LET m == YearsMatchAt(s, First(starts))
             IN  <<m>> \o FindYears(s, m.end)

RECURSIVE ParseInt(_, _)
\* int(digits), acc holding the value of the digits read so far
ParseInt(digits, acc) ==
    IF digits = "" THEN acc
    ELSE ParseInt(Tail(digits), 10 * acc + (IndexOf(Head(digits), DigitChars) - 1))

RECURSIVE YearsOf(_, _)
\* the list job_years / resume_years: the numbers of every match in every
\* phrase, from phrase i on
YearsOf(exps, i) ==
    IF i > Len(exps) THEN <<>>
    ELSE LET ms == FindYears(exps[i], 1)
         IN  [k \in 1..Len(ms) |-> ParseInt(ms[k].year, 0)] \o YearsOf(exps, i + 1)

\* max(xs) of a non-empty list
MaxOf(xs) == CHOOSE x \in {xs[k] : k \in 1..Len(xs)} : \A k \in 1..Len(xs) : xs[k] <= x

\* lines 206-221: how many phrases of the job have a phrase of the resume
\* that contains them or is contained in them
ExperienceMatches(job_exp_lower, resume_exp_lower) ==
    Cardinality({i \in 1..Len(job_exp_lower) :
        \E k \in 1..Len(resume_exp_lower) :
            EitherContains(job_exp_lower[i], resume_exp_lower[k])})

\* the score comparing the first year found instead of the maximum
ExperienceScore_first_year(job_exp_lower, resume_exp_lower, job_years, resume_years) ==
    IF job_years # <<>> /\ resume_years # <<>>
    THEN IF resume_years[1] >= job_years[1]
         THEN One
         ELSE Frac(resume_years[1], job_years[1])
    ELSE RMin(One, Frac(ExperienceMatches(job_exp_lower, resume_exp_lower),
                        Len(job_exp_lower)))

\* lines 190-224: the score from the lower-cased phrases and the years in them
ExperienceScore(job_exp_lower, resume_exp_lower, job_years, resume_years) ==
    IF job_years # <<>> /\ resume_years # <<>>
    THEN IF MaxOf(resume_years) >= MaxOf(job_years)
         THEN One
         ELSE Frac(MaxOf(resume_years), MaxOf(job_years))
    ELSE RMin(One, Frac(ExperienceMatches(job_exp_lower, resume_exp_lower),
                        Len(job_exp_lower)))

\* calculate_experience_match comparing the first year found instead of the maximum
calculate_experience_match_first_year(job_experience, resume_experience) ==
    IF job_experience = <<>> THEN One
    ELSE IF resume_experience = <<>> THEN Zero
    ELSE ExperienceScore_first_year(MapLower(job_experience), MapLower(resume_experience),
                                    YearsOf(MapLower(job_experience), 1),
                                    YearsOf(MapLower(resume_experience), 1))

calculate_experience_match(job_experience, resume_experience) ==
    IF job_experience = <<>> THEN One
    ELSE IF resume_experience = <<>> THEN Zero
    ELSE ExperienceScore(MapLower(job_experience), MapLower(resume_experience),
                         YearsOf(MapLower(job_experience), 1),
                         YearsOf(MapLower(resume_experience), 1))

-----------------------------------------------------------------------------
(* embeddings.py: vectors and their similarity.                            *)
(* A vector of D components is the record [n |-> D, head |-> w]: w lists   *)
(* the leading components and the components after them are zero.  The    *)
(* weights are term counts: TfidfVectorizer scales each vector to unit     *)
(* length, which changes neither which vectors are zero nor any cosine.    *)

D == 384

\* np.zeros(384)
ZeroVector == [n |-> D, head |-> <<>>]

RECURSIVE SumProducts(_, _, _)
SumProducts(a, b, i) ==
    IF i > Len(a) \/ i > Len(b) THEN 0 ELSE a[i] * b[i] + SumProducts(a, b, i + 1)

\* np.dot(embedding1, embedding2)
Dot(embedding1, embedding2) == SumProducts(embedding1.head, embedding2.head, 1)

\* np.all(embedding == 0)
AllZero(embedding) == \A i \in 1..Len(embedding.head) : embedding.head[i] = 0

\* the floats of a cosine are kept to a fixed number of steps per unit
Resolution == 100

\* np.dot(e1, e2) / (norm(e1) * norm(e2)) in steps of 1 / Resolution, rounded
\* toward zero; both vectors are non-zero
CosineSteps(embedding1, embedding2) ==
    LET d   == Dot(embedding1, embedding2)
        p   == Dot(embedding1, embedding1) * Dot(embedding2, embedding2)
        mag == CHOOSE k \in 0..Resolution :
                   /\ k * k * p <= Resolution * Resolution * d * d
                   /\ (k + 1) * (k + 1) * p > Resolution * Resolution * d * d
    IN  IF d < 0 THEN 0 - mag ELSE mag

IntMin(a, b) == IF a <= b THEN a ELSE b
IntMax(a, b) == IF a >= b THEN a ELSE b

\* calculate_similarity without the line max(0.0, min(1.0, similarity))
calculate_similarity_unclamped(embedding1, embedding2) ==
    IF AllZero(embedding1) \/ AllZero(embedding2) THEN Zero
    ELSE Frac(CosineSteps(embedding1, embedding2), Resolution)

calculate_similarity(embedding1, embedding2) ==
    IF AllZero(embedding1) \/ AllZero(embedding2) THEN Zero
    ELSE LET similarity == CosineSteps(embedding1, embedding2)
         IN  Frac(IntMax(0, IntMin(Resolution, similarity)), Resolution)

-----------------------------------------------------------------------------
(* ranker.py: rank_resumes *)

\* Python's None
None == [none |-> TRUE]

\* the weights of similarity and skills exchanged
WeightSimilarity_exchanged == <<3, 10>>

WeightSimilarity == <<2, 5>>     \* 0.4
WeightSkills     == <<3, 10>>    \* 0.3
WeightEducation  == <<3, 20>>    \* 0.15
WeightExperience == <<3, 20>>    \* 0.15
Hundred          == <<100, 1>>

\* the comprehension keeping only the entries equal to an entry of ys
MatchingAny_exact(xs, ys) ==
    LET Hit(x) == \E k \in 1..Len(ys) : Lower(x) = Lower(ys[k])
    IN  SelectSeq(xs, Hit)

\* [x for x in xs if any(x.lower() in y.lower() or y.lower() in x.lower() for y in ys)]
MatchingAny(xs, ys) ==
    LET Hit(x) == \E k \in 1..Len(ys) : EitherContains(Lower(x), Lower(ys[k]))
    IN  SelectSeq(xs, Hit)

\* [x for x in xs if not any(...)]
MatchingNone(xs, ys) ==
    LET Miss(x) == ~ \E k \in 1..Len(ys) : EitherContains(Lower(x), Lower(ys[k]))
    IN  SelectSeq(xs, Miss)

\* lines 53-80: the weighted overall score of the four scores
OverallScore(similarity_score, skills_score, education_score, experience_score) ==
    RMul(RAdd(RAdd(RAdd(RMul(similarity_score, WeightSimilarity),
                        RMul(skills_score, WeightSkills)),
                   RMul(education_score, WeightEducation)),
              RMul(experience_score, WeightExperience)),
         Hundred)

\* lines 62-80: the entry appended for a resume with these four scores
RankedEntry(job_description, resume, similarity_score, skills_score, education_score, experience_score) ==
    [filename         |-> resume.filename,
     text             |-> resume.text,
     processed_text   |-> resume.processed_text,
     entities         |-> resume.entities,
     embedding        |-> resume.embedding,
     match_score      |-> OverallScore(similarity_score, skills_score, education_score,
                                       experience_score),
     skills_score     |-> RMul(skills_score, Hundred),
     education_score  |-> RMul(education_score, Hundred),
     experience_score |-> RMul(experience_score, Hundred),
     matching_skills  |-> MatchingAny(resume.entities.skills,
                                      job_description.entities.skills),
     missing_skills   |-> MatchingNone(job_description.entities.skills,
                                       resume.entities.skills)]

\* the body of the loop of rank_resumes: the entry appended for one resume
ScoreResume(job_description, resume) ==
    RankedEntry(job_description, resume,
                calculate_similarity(job_description.embedding, resume.embedding),
                calculate_skills_match(job_description.entities.skills,
                                       resume.entities.skills),
                calculate_education_match(job_description.entities.education,
                                          resume.entities.education),
                calculate_experience_match(job_description.entities.experience,
                                           resume.entities.experience))

\* the sort without reverse=True: ascending
Precedes_ascending(a, b) == RLt(a.match_score, b.match_score)

\* the key of the sort precedes: a comes before b in descending order
Precedes(a, b) == RLt(b.match_score, a.match_score)

RECURSIVE InsertSorted_before_equals(_, _)
\* x put into the sorted list rs in front of the entries of its own score,
\* as an ascending sort that is reversed afterwards leaves them
InsertSorted_before_equals(rs, x) ==
    IF rs = <<>> THEN <<x>>
    ELSE IF ~Precedes(Head(rs), x) THEN <<x>> \o rs
    ELSE <<Head(rs)>> \o InsertSorted_before_equals(Tail(rs), x)

RECURSIVE InsertSorted(_, _)
\* x put into the sorted list rs behind every entry it does not precede
InsertSorted(rs, x) ==
    IF rs = <<>> THEN <<x>>
    ELSE IF Precedes(x, Head(rs)) THEN <<x>> \o rs
    ELSE <<Head(rs)>> \o InsertSorted(Tail(rs), x)

RECURSIVE SortRanked(_, _, _)
\* list.sort(key=match_score, reverse=True): a stable sort, entries of equal
\* score keep their order
SortRanked(rs, i, sorted) ==
    IF i > Len(rs) THEN sorted ELSE SortRanked(rs, i + 1, InsertSorted(sorted, rs[i]))

\* an empty dict, as a job description
EmptyDict == <<>>

\* not job_description, for a job description that is None or a dict
NoJob(job_description) == job_description = None \/ job_description = EmptyDict

\* what a failed call leaves in place of a result: the exception it raised
Raised(exception) == <<[raised |-> exception]>>

\* rank_resumes without the test of the job description at line 16: the
\* first subscript of the loop raises on a job that is None or empty
rank_resumes_unguarded(job_description, parsed_resumes) ==
    IF parsed_resumes = <<>> THEN <<>>
    ELSE IF job_description = None THEN Raised("TypeError")
    ELSE IF job_description = EmptyDict THEN Raised("KeyError")
    ELSE SortRanked([i \in 1..Len(parsed_resumes) |->
                        ScoreResume(job_description, parsed_resumes[i])],
                    1, <<>>)

rank_resumes(job_description, parsed_resumes) ==
    IF NoJob(job_description) \/ parsed_resumes = <<>> THEN <<>>
    ELSE SortRanked([i \in 1..Len(parsed_resumes) |->
                        ScoreResume(job_description, parsed_resumes[i])],
                    1, <<>>)

-----------------------------------------------------------------------------
(* text_processor.py: preprocess_text *)

\* \w: letters, digits and the underscore
IsWordChar(c) ==
    c # "" /\ (Contains(c, LowerChars) \/ Contains(c, UpperChars)
                  \/ Contains(c, DigitChars) \/ c = "_")

\* \S* from position i: the position after the run of non-whitespace
NonSpaceRunEnd(s, i) == RunEnd(s, i, {k \in i..Len(s) : ~IsSpace(SafeChar(s, k))})

\* \S+ matches at position i
NonSpaceAt(s, i) == i <= Len(s) /\ ~IsSpace(SafeChar(s, i))

RECURSIVE RemoveUrls(_, _)
\* re.sub(r'http\S+|www\S+|https\S+', '', text), from position i on
RemoveUrls(s, i) ==
    LET starts == {j \in i..Len(s) :
                      \/ StartsWithAt(s, j, "http") /\ NonSpaceAt(s, j + 4)
                      \/ StartsWithAt(s, j, "www") /\ NonSpaceAt(s, j + 3)}
    IN  IF starts = {} THEN SubSeq(s, i, Len(s))
        ELSE LET j == First(starts)
             IN  SubSeq(s, i, j - 1) \o RemoveUrls(s, NonSpaceRunEnd(s, j))

RECURSIVE RemoveEmails(_, _)
\* re.sub(r'\S*@\S*\s?', '', text), from position i on: a run of
\* non-whitespace holding an @ goes, with one whitespace character after it
RemoveEmails(s, i) ==
    LET starts == {j \in i..Len(s) :
                      Contains("@", SubSeq(s, j, NonSpaceRunEnd(s, j) - 1))}
    IN  IF starts = {} THEN SubSeq(s, i, Len(s))
        ELSE LET j == First(starts)
                 e == NonSpaceRunEnd(s, j)
             IN  SubSeq(s, i, j - 1)
                     \o RemoveEmails(s, IF IsSpace(SafeChar(s, e)) THEN e + 1 ELSE e)

\* \d{n} at position i
DigitsAt(s, i, n) == \A k \in 0..(n - 1) : IsDigit(SafeChar(s, i + k))

IsPhoneSeparator(c) == c \in {"-", "."} \/ IsSpace(c)

\* \(?\d{3}\)?[-.\s]?\d{3}[-.\s]?\d{4} at position i: the position after the
\* match, 0 when there is none
PhoneMatchEnd(s, i) ==
    LET a == IF SafeChar(s, i) = "(" THEN i + 1 ELSE i
        b == IF SafeChar(s, a + 3) = ")" THEN a + 4 ELSE a + 3
        c == IF IsPhoneSeparator(SafeChar(s, b)) THEN b + 1 ELSE b
        d == IF IsPhoneSeparator(SafeChar(s, c + 3)) THEN c + 4 ELSE c + 3
    IN  IF DigitsAt(s, a, 3) /\ DigitsAt(s, c, 3) /\ DigitsAt(s, d, 4) THEN d + 4 ELSE 0

RECURSIVE RemovePhones(_, _)
\* re.sub(phone pattern, '', text), from position i on
RemovePhones(s, i) ==
    LET starts == {j \in i..Len(s) : PhoneMatchEnd(s, j) > 0}
    IN  IF starts = {} THEN SubSeq(s, i, Len(s))
        ELSE LET j == First(starts)
             IN  SubSeq(s, i, j - 1) \o RemovePhones(s, PhoneMatchEnd(s, j))

RECURSIVE ReplaceNonWord(_)
\* re.sub(r'[^\w\s]', ' ', text)
ReplaceNonWord(s) ==
    IF s = "" THEN ""
    ELSE IF Len(s) = 1 THEN (IF IsWordChar(s) \/ IsSpace(s) THEN s ELSE " ")
    ELSE LET h == Len(s) \div 2
         IN  ReplaceNonWord(SubSeq(s, 1, h)) \o ReplaceNonWord(SubSeq(s, h + 1, Len(s)))

RECURSIVE SplitWhitespace(_, _)
\* the maximal runs of non-whitespace of s from position i on, in order
SplitWhitespace(s, i) ==
    LET j == SpaceRunEnd(s, i)
        e == NonSpaceRunEnd(s, j)
    IN  IF j > Len(s) THEN <<>>
        ELSE <<SubSeq(s, j, e - 1)>> \o SplitWhitespace(s, e)

RECURSIVE Join(_)
\* ' '.join(tokens)
Join(tokens) ==
    IF tokens = <<>> THEN ""
    ELSE IF Len(tokens) = 1 THEN tokens[1]
    ELSE tokens[1] \o " " \o Join(Tail(tokens))

\* re.sub(r'\s+', ' ', text).strip()
CollapseWhitespace(s) == Join(SplitWhitespace(s, 1))

\* word_tokenize, and the fallback RegexpTokenizer(r'\w+'), on a text of word
\* characters separated by single spaces: its words
Tokenize(s) == SplitWhitespace(s, 1)

\* stopwords.words('english'), the part of the list that the texts here use
STOP_WORDS ==
    {"i", "me", "my", "we", "our", "you", "he", "she", "it", "they", "them",
     "a", "an", "the", "and", "but", "if", "or", "as", "of", "at", "by", "for",
     "with", "to", "from", "in", "on", "is", "are", "was", "be", "been", "have",
     "has", "this", "that", "no", "not", "s", "t", "so", "than", "too", "very",
     "can", "will", "just", "then", "here", "there", "when", "where", "all"}

\* WordNetLemmatizer.lemmatize(token): the shortest noun base form WordNet
\* has for the token, the token itself when it has none
Lemmatize(token) ==
    CASE token = "years"      -> "year"
      [] token = "yrs"        -> "yr"
      [] token = "developers" -> "developer"
      [] token = "engineers"  -> "engineer"
      [] token = "skills"     -> "skill"
      [] token = "resumes"    -> "resume"
      [] token = "us"         -> "u"
      [] OTHER                -> token

\* [LEMMATIZER.lemmatize(t) for t in tokens if t not in STOP_WORDS and len(t) > 1]
FilterTokens(tokens) ==
    LET Keep(t) == t \notin STOP_WORDS /\ Len(t) > 1
    IN  [i \in 1..Len(SelectSeq(tokens, Keep)) |-> Lemmatize(SelectSeq(tokens, Keep)[i])]

preprocess_text(text) ==
    IF text = "" THEN ""
    ELSE Join(FilterTokens(Tokenize(CollapseWhitespace(ReplaceNonWord(
             RemovePhones(RemoveEmails(RemoveUrls(Lower(text), 1), 1), 1))))))

-----------------------------------------------------------------------------
(* entity_extractor.py.  The spaCy pipeline nlp is outside the repository: *)
(* its tokens are the words of the text, its named entities are the words  *)
(* of a fixed gazetteer, and a text without punctuation is one sentence.   *)

EDUCATION_TERMS ==
    <<"bachelor", "master", "phd", "doctorate", "degree", "mba", "bsc", "msc", "b.a", "m.a",
      "b.s", "m.s", "bachelor of", "master of", "diploma", "certification", "certificate",
      "university", "college", "institute", "school", "academy", "education">>

COMMON_SKILLS ==
    <<"python", "java", "javascript", "c++", "c#", "ruby", "php", "swift", "kotlin",
      "typescript", "golang", "scala",
      "html", "css", "react", "angular", "vue", "node.js", "express", "django", "flask",
      "spring", "asp.net", "laravel",
      "machine learning", "deep learning", "nlp", "data analysis", "tensorflow", "pytorch",
      "scikit-learn", "pandas", "numpy", "r", "sql", "nosql", "statistics",
      "data visualization", "tableau", "power bi", "big data", "hadoop",
      "aws", "azure", "gcp", "docker", "kubernetes", "jenkins", "git", "github", "gitlab",
      "devops", "ci/cd",
      "project management", "agile", "scrum", "kanban", "leadership", "team management",
      "product management", "business analysis", "marketing", "sales", "customer service",
      "communication",
      "microsoft office", "excel", "word", "powerpoint", "g suite", "google docs",
      "rest api", "graphql", "microservices", "blockchain", "cybersecurity", "networking",
      "linux", "unix",
      "accounting", "finance", "hr", "human resources", "healthcare", "marketing", "sales",
      "customer service", "supply chain", "logistics", "seo", "content marketing",
      "social media">>

\* \b at position i: exactly one of the characters before and at i is a word character
WordBoundary(s, i) == IsWordChar(SafeChar(s, i - 1)) # IsWordChar(SafeChar(s, i))

\* the positions where re.search(r'\b' + re.escape(term) + r'\b', s) can match
WordMatches(term, s) ==
    {i \in 1..Len(s) : /\ StartsWithAt(s, i, term)
                       /\ WordBoundary(s, i)
                       /\ WordBoundary(s, i + Len(term))}

SearchWord(term, s) == WordMatches(term, s) # {}

\* re.search(r'\b(a|b|...)\b', s).group(0): the leftmost match, and at one
\* position the first alternative that matches; "" when there is none
SearchAlternatives(alternatives, s) ==
    LET starts == UNION {WordMatches(alternatives[k], s) : k \in 1..Len(alternatives)}
    IN  IF starts = {} THEN ""
        ELSE LET i == First(starts)
                 k == First({m \in 1..Len(alternatives) : i \in WordMatches(alternatives[m], s)})
             IN  alternatives[k]

\* doc = nlp(text): the tokens
nlp_tokens(text) == SplitWhitespace(text, 1)

NER_GAZETTEER ==
    [acme |-> "ORG", london |-> "GPE"]

\* doc.ents: the tokens the gazetteer knows, with their labels
nlp_ents(text) ==
    LET Known(t) == t \in DOMAIN NER_GAZETTEER
        Entity(t) == [text |-> t, label |-> NER_GAZETTEER[t]]
    IN  [i \in 1..Len(SelectSeq(nlp_tokens(text), Known)) |->
            Entity(SelectSeq(nlp_tokens(text), Known)[i])]

\* doc.sents
nlp_sents(text) == <<text>>

\* token.is_alpha
IsAlpha(token) ==
    token # "" /\ \A i \in 1..Len(token) :
        Contains(CharAt(token, i), LowerChars) \/ Contains(CharAt(token, i), UpperChars)

\* the members of xs in the order of their first occurrence
Dedup(xs) ==
    LET firsts == {i \in 1..Len(xs) : \A j \in 1..(i - 1) : xs[j] # xs[i]}
        RECURSIVE Pick(_)
        Pick(S) == IF S = {} THEN <<>>
                   ELSE LET i == First(S) IN <<xs[i]>> \o Pick(S \ {i})
    IN  Pick(firsts)

Reverse(xs) == [i \in 1..Len(xs) |-> xs[Len(xs) + 1 - i]]

\* list(a_set), a_set filled by adding the entries of added in turn.  The
\* order of a set of strings depends on the hash seed of the process:
\* hash_order names the order this process produces.
ListOfSet(added, order) ==
    IF order = "insertion" THEN Dedup(added) ELSE Reverse(Dedup(added))

\* lines 75-78: the entities taken for skills
SkillsOfEntities(ents) ==
    LET IsSkillEnt(e) == e.label \in {"PRODUCT", "ORG", "GPE"} /\ Len(e.text) > 1
    IN  [i \in 1..Len(SelectSeq(ents, IsSkillEnt)) |->
            Lower(SelectSeq(ents, IsSkillEnt)[i].text)]

\* lines 81-84: the common skills found in the text as whole words
SkillsOfTerms(lowered) ==
    LET InText(skill) == SearchWord(skill, lowered)
    IN  SelectSeq(COMMON_SKILLS, InText)

\* lines 87-98: with a programming word in the text, its tokens that are common skills
SkillsOfTokens(tokens, lowered) ==
    LET IsCommon(t) == /\ IsAlpha(t) /\ Len(t) > 1
                       /\ \E k \in 1..Len(COMMON_SKILLS) : COMMON_SKILLS[k] = Lower(t)
    IN  IF SearchAlternatives(<<"programming", "coding", "development", "developer",
                                "engineer">>, lowered) # ""
        THEN MapLower(SelectSeq(tokens, IsCommon))
        ELSE <<>>

extract_skills(text, order) ==
    ListOfSet(SkillsOfEntities(nlp_ents(text)) \o SkillsOfTerms(Lower(text))
                  \o SkillsOfTokens(nlp_tokens(text), Lower(text)),
              order)

DEGREE_PATTERN ==
    <<"bachelor", "master", "phd", "doctorate", "mba", "bsc", "msc", "b.a", "m.a", "b.s",
      "m.s", "diploma", "certificate">>

FIELD_PATTERN ==
    <<"computer science", "engineering", "business", "management", "marketing", "finance",
      "economics", "accounting", "psychology", "biology", "chemistry", "physics",
      "mathematics", "communications", "english", "history", "philosophy",
      "political science", "sociology">>

\* what one sentence adds to the education set: nothing when no education term
\* occurs in it or when it has no degree and ten words or more
\* lines 136-139: a sentence without a degree counts when it is short
ShortSentence(clean_sentence) ==
    IF Len(SplitWhitespace(clean_sentence, 1)) < 10 THEN <<clean_sentence>> ELSE <<>>

\* lines 126-139: what a sentence with an education term adds, given the
\* degree and the field found in it
EducationPhrase(sentence, degree, field) ==
    IF degree # "" THEN (IF field # "" THEN <<degree \o " in " \o field>> ELSE <<degree>>)
    ELSE ShortSentence(CollapseWhitespace(ReplaceNonWord(sentence)))

\* what one sentence adds to the education set: nothing when no education term
\* occurs in it or when it has no degree and ten words or more
EducationOfSentence(sentence) ==
    IF \E k \in 1..Len(EDUCATION_TERMS) : SearchWord(EDUCATION_TERMS[k], sentence)
    THEN EducationPhrase(sentence, SearchAlternatives(DEGREE_PATTERN, sentence),
                         SearchAlternatives(FIELD_PATTERN, sentence))
    ELSE <<>>

RECURSIVE EducationOfSentences(_, _)
EducationOfSentences(sentences, i) ==
    IF i > Len(sentences) THEN <<>>
    ELSE EducationOfSentence(Lower(sentences[i])) \o EducationOfSentences(sentences, i + 1)

extract_education(text, order) ==
    ListOfSet(EducationOfSentences(nlp_sents(text), 1), order)

job_titles ==
    {"manager", "developer", "engineer", "analyst", "director", "coordinator", "specialist",
     "assistant", "associate", "consultant", "supervisor", "administrator", "architect",
     "designer", "technician", "officer", "representative", "lead", "head"}

\* lines 152-156: a phrase for every match of the years pattern
ExperienceOfYears(years_exp) ==
    [i \in 1..Len(years_exp) |->
        years_exp[i].year \o " " \o years_exp[i].unit \o " of experience"]

\* lines 166-173: every job title that is not the first token, with the token
\* before it when that is alphabetic
ExperienceOfTitles(tokens) ==
    LET TitleAt(i) == IF IsAlpha(tokens[i - 1])
                      THEN Lower(tokens[i - 1] \o " " \o tokens[i])
                      ELSE Lower(tokens[i])
        RECURSIVE Titles(_)
        Titles(S) == IF S = {} THEN <<>>
                     ELSE <<TitleAt(First(S))>> \o Titles(S \ {First(S)})
    IN  Titles({i \in 2..Len(tokens) : Lower(tokens[i]) \in job_titles})

\* lines 176-184: the organisations of the text
ExperienceOfEntities(ents) ==
    LET IsOrg(e) == e.label = "ORG" /\ Len(SplitWhitespace(e.text, 1)) < 5
    IN  [i \in 1..Len(SelectSeq(ents, IsOrg)) |->
            "worked at " \o Lower(SelectSeq(ents, IsOrg)[i].text)]

extract_experience(text, order) ==
    ListOfSet(ExperienceOfYears(FindYears(Lower(text), 1))
                  \o ExperienceOfTitles(nlp_tokens(text))
                  \o ExperienceOfEntities(nlp_ents(text)),
              order)

extract_entities(text, order) ==
    IF text = "" THEN [skills |-> <<>>, education |-> <<>>, experience |-> <<>>]
    ELSE [skills     |-> extract_skills(text, order),
          education  |-> extract_education(text, order),
          experience |-> extract_experience(text, order)]

-----------------------------------------------------------------------------
(* embeddings.py: load_model and get_embedding *)

\* TfidfVectorizer(max_features=384), not fitted: it has no vocabulary_
Unfitted == [fitted |-> FALSE, vocabulary |-> <<>>]

\* hasattr(vectorizer, 'vocabulary_')
IsFitted(v) == v # None /\ v.fitted

\* the tokens TfidfVectorizer takes from a text: lower-cased, the pattern
\* (?u)\b\w\w+\b, that is the runs of two or more word characters
TfidfTokens(text) ==
    LET LongEnough(t) == Len(t) >= 2
    IN  SelectSeq(SplitWhitespace(ReplaceNonWord(Lower(text)), 1), LongEnough)

\* how often each term of the vocabulary is among the tokens
Counts(vocabulary, tokens) ==
    [k \in 1..Len(vocabulary) |->
        Cardinality({i \in 1..Len(tokens) : tokens[i] = vocabulary[k]})]

\* the weight of each term of the vocabulary in the text: its count (with one
\* fitted document every idf is 1)
Weights(vocabulary, text) == Counts(vocabulary, TfidfTokens(text))

\* the vector returned as transform gives it, neither padded nor truncated
PadOrTruncate_neither(w) == [n |-> Len(w), head |-> w]

\* np.pad(embedding, (0, 384 - len(embedding))) / embedding[:384]: n is the
\* length of the result and head its components before the padding
PadOrTruncate(w) ==
    IF Len(w) < D THEN [n |-> Len(w) + (D - Len(w)), head |-> w]
    ELSE IF Len(w) > D THEN [n |-> D, head |-> SubSeq(w, 1, D)]
    ELSE [n |-> Len(w), head |-> w]

\* the vectorizer fitted to a vocabulary, and the vector of the text under it
FitTo(vocabulary, text) ==
    [vectorizer |-> [fitted |-> TRUE, vocabulary |-> vocabulary],
     embedding  |-> PadOrTruncate(Weights(vocabulary, text)),
     failed     |-> FALSE]

\* vectorizer.fit_transform([text]), absent the ValueError for an empty vocabulary
fit_transform(text) == FitTo(Dedup(TfidfTokens(text)), text)

\* get_embedding, refitting on every text ("fit and transform for each text")
get_embedding_refit(v, text) ==
    IF text = "" \/ TfidfTokens(text) = <<>>
    THEN [vectorizer |-> IF v = None THEN Unfitted ELSE v, embedding |-> ZeroVector,
          failed |-> text # ""]
    ELSE fit_transform(text)

\* get_embedding(text) with the global vectorizer at v: the vectorizer it
\* leaves, the vector it returns, and whether the except branch was taken
get_embedding(v, text) ==
    LET loaded == IF v = None THEN Unfitted ELSE v
    IN  IF text = ""
        THEN [vectorizer |-> loaded, embedding |-> ZeroVector, failed |-> FALSE]
        ELSE IF ~loaded.fitted
        THEN IF TfidfTokens(text) = <<>>
             THEN [vectorizer |-> loaded, embedding |-> ZeroVector, failed |-> TRUE]
             ELSE fit_transform(text)
        ELSE [vectorizer |-> loaded,
              embedding  |-> PadOrTruncate(Weights(loaded.vocabulary, text)),
              failed     |-> FALSE]

-----------------------------------------------------------------------------
(* resume_parser.py and the inputs of the application *)

\* an uploaded file: its name, whether its container can be read, the text in
\* it, and whether that text is longer than spaCy accepts (nlp raises on it)
File(name, readable, text, oversize) ==
    [name |-> name, readable |-> readable, text |-> text, oversize |-> oversize]

\* the extension of a file name: the part after its last dot, lower-cased
Extension(name) ==
    LET dots == {i \in 1..Len(name) : CharAt(name, i) = "."}
    IN  IF dots = {} THEN ""
        ELSE Lower(SubSeq(name, (CHOOSE i \in dots : \A j \in dots : j <= i) + 1, Len(name)))

\* parse_resume: the text, or raised
parse_resume(file) ==
    LET ext == Extension(file.name)
    IN  IF ext \notin {"pdf", "docx"} \/ ~file.readable
        THEN [raised |-> TRUE, text |-> ""]
        ELSE IF SplitWhitespace(file.text, 1) = <<>>
        THEN [raised |-> FALSE,
              text |-> IF ext = "pdf"
                       THEN "No text could be extracted from this PDF file."
                       ELSE "No text could be extracted from this DOCX file."]
        ELSE [raised |-> FALSE, text |-> file.text]

JobTexts ==
    {"   ", "the", "Python developer, 5+ years experience", "Java engineer at Acme, 10 years"}

SeniorFile == File("senior.pdf", TRUE, "Senior Python Developer, 6 years experience", FALSE)
JuniorFile == File("junior.docx", TRUE, "Java developer, 12 years, SQL", FALSE)
BrokenFile == File("broken.pdf", FALSE, "", FALSE)
UsFile     == File("us.docx", TRUE, "us", FALSE)
HugeFile   == File("huge.pdf", TRUE, "Python engineer", TRUE)
ScanFile   == File("scan.pdf", TRUE, " ", FALSE)

Uploads ==
    {<<>>,
     <<SeniorFile>>,
     <<JuniorFile, SeniorFile>>,
     <<BrokenFile, SeniorFile, UsFile>>,
     <<UsFile, HugeFile, JuniorFile>>,
     <<BrokenFile, HugeFile>>,
     <<ScanFile, UsFile>>}

HashOrders == {"insertion", "reverse"}

\* the texts the pipeline meets
RawTexts ==
    JobTexts \cup UNION {{parse_resume(ups[i]).text : i \in 1..Len(ups)} : ups \in Uploads}

\* the texts the pipeline meets, normalised once
PROCESSED == [t \in RawTexts |-> preprocess_text(t)]

\* and the entities extracted from them, under either listing order
ENTITIES ==
    [order \in HashOrders |-> [t \in RawTexts |-> extract_entities(PROCESSED[t], order)]]

-----------------------------------------------------------------------------
(* app.py: one press of "Process and Rank Resumes" after another *)

NoCall == [fn |-> "none"]
NoEncode == [called |-> FALSE]

\* lines 21-28: what main() puts into an empty session
EmptySession ==
    [job_description |-> "", parsed_resumes |-> <<>>, ranked_resumes |-> <<>>,
     show_results |-> FALSE]

\* no run of the button handler is in progress
NoRun ==
    /\ pc = "idle"
    /\ main_job_description = ""
    /\ uploaded_files = <<>>
    /\ processed_jd = None
    /\ main_parsed_resumes = <<>>
    /\ file_index = 1
    /\ errors = <<>>
    /\ main_ranked_resumes = <<>>
    /\ encoded = NoEncode
    /\ encode_failures = <<>>
    /\ vectorizer_at_start = None

\* the process has started and a session is open
AppStarted ==
    /\ vectorizer = None
    /\ hash_order \in HashOrders
    /\ session_state = EmptySession
    /\ NoRun

Init == call = NoCall /\ AppStarted

\* the record of a get_embedding call, for the properties
Encoded(text, before, e) ==
    [called |-> TRUE, text |-> text, before |-> before, after |-> e.vectorizer,
     failed |-> e.failed]

\* process_job_description leaving the global vectorizer as it found it, as
\* if the job description were encoded by a vectorizer of its own
JobDescriptionProcessed_apart(jd, processed, entities, e) ==
    /\ processed_jd' = [text |-> jd, processed_text |-> processed, entities |-> entities,
                        embedding |-> e.embedding]
    /\ vectorizer' = IF vectorizer = None THEN Unfitted ELSE vectorizer
    /\ encoded' = Encoded(processed, vectorizer, e)
    /\ pc' = "resumes"
    /\ errors' = <<>>

\* lines 36-50: process_job_description past its check, the text normalised
\* to processed, entities extracted from it and e the outcome of get_embedding
JobDescriptionProcessed(jd, processed, entities, e) ==
    /\ processed_jd' = [text |-> jd, processed_text |-> processed, entities |-> entities,
                        embedding |-> e.embedding]
    /\ vectorizer' = e.vectorizer
    /\ encoded' = Encoded(processed, vectorizer, e)
    /\ pc' = "resumes"
    /\ errors' = <<>>

\* the button is pressed with a job description and files: main enters the
\* handler and process_job_description runs
ProcessJobDescription(jd, files) ==
    /\ pc = "idle"
    /\ main_job_description' = jd
    /\ uploaded_files' = files
    /\ vectorizer_at_start' = vectorizer
    /\ IF SplitWhitespace(jd, 1) = <<>>
       THEN /\ errors' = <<[kind |-> "job_description", file |-> ""]>>
            /\ pc' = "done"
            /\ UNCHANGED <<vectorizer, processed_jd, encoded>>
       ELSE JobDescriptionProcessed(jd, PROCESSED[jd], ENTITIES[hash_order][jd],
                                    get_embedding(vectorizer, PROCESSED[jd]))
    /\ UNCHANGED <<call, hash_order, session_state, main_parsed_resumes, file_index,
                   main_ranked_resumes, encode_failures>>

\* the loop body if get_embedding let its exception reach the handler of the
\* loop: the file reported and left out
ResumeProcessed_raising(filename, resume_text, processed_text, entities, e) ==
    /\ vectorizer' = e.vectorizer
    /\ encoded' = Encoded(processed_text, vectorizer, e)
    /\ IF e.failed
       THEN /\ errors' = Append(errors, [kind |-> "file", file |-> filename])
            /\ encode_failures' = Append(encode_failures, filename)
            /\ UNCHANGED main_parsed_resumes
       ELSE /\ main_parsed_resumes' =
                   Append(main_parsed_resumes,
                          [filename |-> filename, text |-> resume_text,
                           processed_text |-> processed_text, entities |-> entities,
                           embedding |-> e.embedding])
            /\ UNCHANGED <<errors, encode_failures>>

\* lines 76-82: the resume is appended, e the outcome of get_embedding
ResumeProcessed(filename, resume_text, processed_text, entities, e) ==
    /\ main_parsed_resumes' =
           Append(main_parsed_resumes,
                  [filename |-> filename, text |-> resume_text,
                   processed_text |-> processed_text, entities |-> entities,
                   embedding |-> e.embedding])
    /\ vectorizer' = e.vectorizer
    /\ encoded' = Encoded(processed_text, vectorizer, e)
    /\ encode_failures' = IF e.failed THEN Append(encode_failures, filename)
                          ELSE encode_failures
    /\ UNCHANGED errors

\* lines 64-85: the try block for one file, parsed the outcome of parse_resume
TryResume(uploaded_file, parsed) ==
    IF parsed.raised \/ uploaded_file.oversize
    THEN /\ errors' = Append(errors, [kind |-> "file", file |-> uploaded_file.name])
         /\ encoded' = NoEncode
         /\ UNCHANGED <<vectorizer, main_parsed_resumes, encode_failures>>
    ELSE ResumeProcessed(uploaded_file.name, parsed.text, PROCESSED[parsed.text],
                         ENTITIES[hash_order][parsed.text],
                         get_embedding(vectorizer, PROCESSED[parsed.text]))

\* one turn of the loop of process_resumes
ProcessResume ==
    /\ pc = "resumes"
    /\ file_index <= Len(uploaded_files)
    /\ TryResume(uploaded_files[file_index], parse_resume(uploaded_files[file_index]))
    /\ file_index' = file_index + 1
    /\ UNCHANGED <<call, hash_order, session_state, pc, main_job_description, uploaded_files,
                   processed_jd, main_ranked_resumes, vectorizer_at_start>>

\* main returning for want of resumes after clearing the stored results
NoResumes_clearing ==
    /\ pc = "resumes"
    /\ file_index > Len(uploaded_files)
    /\ main_parsed_resumes = <<>>
    /\ errors' = IF uploaded_files = <<>>
                 THEN Append(errors, [kind |-> "upload", file |-> ""])
                 ELSE errors
    /\ pc' = "done"
    /\ encoded' = NoEncode
    /\ session_state' = EmptySession
    /\ UNCHANGED <<call, vectorizer, hash_order, main_job_description,
                   uploaded_files, processed_jd, main_parsed_resumes, file_index,
                   main_ranked_resumes, encode_failures, vectorizer_at_start>>

\* process_resumes returns an empty list, with no file uploaded or none
\* parsed, and main returns
NoResumes ==
    /\ pc = "resumes"
    /\ file_index > Len(uploaded_files)
    /\ main_parsed_resumes = <<>>
    /\ errors' = IF uploaded_files = <<>>
                 THEN Append(errors, [kind |-> "upload", file |-> ""])
                 ELSE errors
    /\ pc' = "done"
    /\ encoded' = NoEncode
    /\ UNCHANGED <<call, vectorizer, hash_order, session_state, main_job_description,
                   uploaded_files, processed_jd, main_parsed_resumes, file_index, main_ranked_resumes,
                   encode_failures, vectorizer_at_start>>

\* lines 138-146: the parsed resumes are stored, ranked, and the results shown
RankAndStore ==
    /\ pc = "resumes"
    /\ file_index > Len(uploaded_files)
    /\ main_parsed_resumes # <<>>
    /\ main_ranked_resumes' = rank_resumes(processed_jd, main_parsed_resumes)
    /\ session_state' = [job_description |-> main_job_description,
                         parsed_resumes |-> main_parsed_resumes,
                         ranked_resumes |-> main_ranked_resumes',
                         show_results |-> TRUE]
    /\ pc' = "done"
    /\ encoded' = NoEncode
    /\ UNCHANGED <<call, vectorizer, hash_order, main_job_description, uploaded_files,
                   processed_jd, main_parsed_resumes, file_index, errors, encode_failures,
                   vectorizer_at_start>>

\* the run of the script ends and its locals go
ScriptEnd ==
    /\ pc = "done"
    /\ pc' = "idle"
    /\ main_job_description' = ""
    /\ uploaded_files' = <<>>
    /\ processed_jd' = None
    /\ main_parsed_resumes' = <<>>
    /\ file_index' = 1
    /\ errors' = <<>>
    /\ main_ranked_resumes' = <<>>
    /\ encoded' = NoEncode
    /\ encode_failures' = <<>>
    /\ vectorizer_at_start' = None
    /\ UNCHANGED <<call, vectorizer, hash_order, session_state>>

Next ==
    \/ \E jd \in JobTexts, files \in Uploads : ProcessJobDescription(jd, files)
    \/ ProcessResume
    \/ NoResumes
    \/ RankAndStore
    \/ ScriptEnd

Spec == Init /\ [][Next]_vars

-----------------------------------------------------------------------------
(* Calls of the scoring functions on their own.  call holds the function,  *)
(* its arguments and, once it has returned, its result.                    *)

\* the lists over S of at most n entries
SeqsUpTo(S, n) == UNION {[1..k -> S] : k \in 0..n}

\* the lists without repetition, as list(set(...)) produces them
DistinctSeqsUpTo(S, n) ==
    {xs \in SeqsUpTo(S, n) : \A i, j \in DOMAIN xs : xs[i] = xs[j] => i = j}

MaxSkills     == 2
MaxEducation  == 2
MaxExperience == 2

SkillPool == {"python", "sql", "python programming", "Java", "javascript"}

EducationPool ==
    {"bachelor in computer science", "bachelor in engineering",
     "bachelor in business", "Bachelor", "phd", "university of life"}

ExperiencePool ==
    {"Python Developer, 5 years", "3 years of experience", "0 year of experience",
     "2 years, then 12+ yrs", "python developer"}

InitSkills ==
    /\ call \in [fn : {"calculate_skills_match"},
                 job : SeqsUpTo(SkillPool, MaxSkills),
                 resume : SeqsUpTo(SkillPool, MaxSkills),
                 ret : {Zero}, done : {FALSE}]
    /\ AppStarted
    /\ hash_order = "insertion"

ReturnSkills ==
    /\ call.fn = "calculate_skills_match" /\ ~call.done
    /\ call' = [call EXCEPT !.ret = calculate_skills_match(call.job, call.resume),
                            !.done = TRUE]

NextSkills == ReturnSkills /\ UNCHANGED appvars
SpecSkills == InitSkills /\ [][NextSkills]_vars

InitEducation ==
    /\ call \in [fn : {"calculate_education_match"},
                 job : DistinctSeqsUpTo(EducationPool, MaxEducation),
                 resume : DistinctSeqsUpTo(EducationPool, MaxEducation),
                 ret : {Zero}, done : {FALSE}]
    /\ AppStarted
    /\ hash_order = "insertion"

ReturnEducation ==
    /\ call.fn = "calculate_education_match" /\ ~call.done
    /\ call' = [call EXCEPT !.ret = calculate_education_match(call.job, call.resume),
                            !.done = TRUE]

NextEducation == ReturnEducation /\ UNCHANGED appvars
SpecEducation == InitEducation /\ [][NextEducation]_vars

InitExperience ==
    /\ call \in [fn : {"calculate_experience_match"},
                 job : DistinctSeqsUpTo(ExperiencePool, MaxExperience),
                 resume : DistinctSeqsUpTo(ExperiencePool, MaxExperience),
                 ret : {Zero}, done : {FALSE}]
    /\ AppStarted
    /\ hash_order = "insertion"

ReturnExperience ==
    /\ call.fn = "calculate_experience_match" /\ ~call.done
    /\ call' = [call EXCEPT !.ret = calculate_experience_match(call.job, call.resume),
                            !.done = TRUE]

NextExperience == ReturnExperience /\ UNCHANGED appvars
SpecExperience == InitExperience /\ [][NextExperience]_vars

-----------------------------------------------------------------------------
(* Calls of rank_resumes: a job, or None, and a list of processed resumes  *)

MaxResumes == 3

RECURSIVE IntToStr(_)
\* str(n) for n >= 0
IntToStr(n) ==
    IF n < 10 THEN CharAt(DigitChars, n + 1)
    ELSE IntToStr(n \div 10) \o CharAt(DigitChars, (n % 10) + 1)

FileName(i) == "resume" \o IntToStr(i) \o ".pdf"

Doc(text, skills, education, experience, head) ==
    [filename       |-> "",
     text           |-> text,
     processed_text |-> Lower(text),
     entities       |-> [skills |-> skills, education |-> education,
                         experience |-> experience],
     embedding      |-> [n |-> D, head |-> head]]

JobPool ==
    {Doc("python sql", <<"python", "sql">>, <<"bachelor in computer science">>,
         <<"5 years of experience">>, <<1, 1, 0>>),
     Doc("none", <<>>, <<>>, <<>>, <<>>),
     Doc("java", <<"java">>, <<"bachelor in engineering">>,
         <<"0 year of experience">>, <<0, 2, 1>>)}

ResumePool ==
    {Doc("senior", <<"python programming">>, <<"bachelor in computer science">>,
         <<"6 years of experience">>, <<1, 1, 0>>),
     Doc("blank", <<>>, <<>>, <<>>, <<0, 0, 0>>),
     Doc("junior", <<"javascript", "sql">>,
         <<"bachelor in business", "bachelor in computer science", "bachelor in engineering">>,
         <<"2 years of experience">>, <<2, 0, 1>>),
     Doc("doctor", <<"python">>, <<"phd">>, <<"python developer">>, <<0, 0, 3>>),
     Doc("other", <<"sql", "python">>, <<"bachelor in computer science">>,
         <<"12 yr of experience">>, <<1, 1>>)}

InitRank ==
    /\ \E job \in JobPool \cup {None, EmptyDict}, rs \in SeqsUpTo(ResumePool, MaxResumes) :
           call = [fn |-> "rank_resumes",
                   job |-> job,
                   resumes |-> [i \in DOMAIN rs |-> [rs[i] EXCEPT !.filename = FileName(i)]],
                   ret |-> <<>>,
                   done |-> FALSE]
    /\ AppStarted
    /\ hash_order = "insertion"

ReturnRank ==
    /\ call.fn = "rank_resumes" /\ ~call.done
    /\ call' = [call EXCEPT !.ret = rank_resumes(call.job, call.resumes), !.done = TRUE]

NextRank == ReturnRank /\ UNCHANGED appvars
SpecRank == InitRank /\ [][NextRank]_vars

-----------------------------------------------------------------------------
(* Calls of calculate_similarity on their own, on vectors whose leading    *)
(* components are small integers of either sign                            *)

MaxHead == 2

Components == {0 - 1, 0, 1, 2}

Vectors == {[n |-> D, head |-> h] : h \in SeqsUpTo(Components, MaxHead)}

InitSimilarity ==
    /\ \E a \in Vectors, b \in Vectors :
           call = [fn |-> "calculate_similarity", embedding1 |-> a, embedding2 |-> b,
                   ret |-> Zero, done |-> FALSE]
    /\ AppStarted
    /\ hash_order = "insertion"

ReturnSimilarity ==
    /\ call.fn = "calculate_similarity" /\ ~call.done
    /\ call' = [call EXCEPT !.ret = calculate_similarity(call.embedding1, call.embedding2),
                            !.done = TRUE]

NextSimilarity == ReturnSimilarity /\ UNCHANGED appvars
SpecSimilarity == InitSimilarity /\ [][NextSimilarity]_vars

-----------------------------------------------------------------------------
(* Calls of preprocess_text on their own, on a text and then on its result *)

TextPieces ==
    {"Python", "the", "us", "555", "555 5555", "(555) 555-5555", "www", "http://x.y",
     "a@b.c", "Developers"}

TextSeparators == {" ", ", ", "/", "-"}

NormalizeTexts == {a \o s \o b : a \in TextPieces, s \in TextSeparators, b \in TextPieces}

InitNormalize ==
    /\ \E text \in NormalizeTexts :
           call = [fn |-> "preprocess_text", text |-> text, once |-> "", twice |-> "",
                   done |-> FALSE]
    /\ AppStarted
    /\ hash_order = "insertion"

\* preprocess_text(text), with the text it returns
ReturnNormalizeTwice(once) ==
    call' = [call EXCEPT !.once = once, !.twice = preprocess_text(once), !.done = TRUE]

ReturnNormalize ==
    /\ call.fn = "preprocess_text" /\ ~call.done
    /\ ReturnNormalizeTwice(preprocess_text(call.text))

NextNormalize == ReturnNormalize /\ UNCHANGED appvars
SpecNormalize == InitNormalize /\ [][NextNormalize]_vars

-----------------------------------------------------------------------------
(* Calls of get_embedding on their own, in every state of the vectorizer *)

EncodeTexts ==
    {"", "u", "a b", "sql", "python developer", "java developer java", "year 12",
     "python sql java developer year", "Python, SQL!", "looking python developer year experience"}

\* the vectorizer before load_model, after it, and fitted to each text with terms
VectorizerStates ==
    {None, Unfitted}
        \cup {fit_transform(t).vectorizer : t \in {x \in EncodeTexts : TfidfTokens(x) # <<>>}}

InitEncode ==
    /\ \E v \in VectorizerStates, text \in EncodeTexts :
           call = [fn |-> "get_embedding", vectorizer |-> v, text |-> text,
                   ret |-> [vectorizer |-> v, embedding |-> ZeroVector, failed |-> FALSE],
                   done |-> FALSE]
    /\ AppStarted
    /\ hash_order = "insertion"

ReturnEncode ==
    /\ call.fn = "get_embedding" /\ ~call.done
    /\ call' = [call EXCEPT !.ret = get_embedding(call.vectorizer, call.text), !.done = TRUE]

NextEncode == ReturnEncode /\ UNCHANGED appvars
SpecEncode == InitEncode /\ [][NextEncode]_vars

-----------------------------------------------------------------------------
(* The pipeline of app.py on one job text and one resume text, in a fresh  *)
(* process: process_job_description, the body of the loop of               *)
(* process_resumes, and rank_resumes.                                      *)

MaxYears == 12

\* a job text requiring n years
JobRequiring(n) == "Looking for a Python developer with " \o IntToStr(n) \o "+ years experience"

\* a resume text stating m years
ResumeStating(m) == "Java developer, " \o IntToStr(m) \o " years experience"

\* the ranking, the texts normalised and ej the outcome of encoding the job
PipelineEncoded(job_text, resume_text, order, processed_jd_text, processed_text, ej) ==
    rank_resumes([text |-> job_text,
                  processed_text |-> processed_jd_text,
                  entities |-> extract_entities(processed_jd_text, order),
                  embedding |-> ej.embedding],
                 <<[filename |-> "resume.pdf",
                    text |-> resume_text,
                    processed_text |-> processed_text,
                    entities |-> extract_entities(processed_text, order),
                    embedding |-> get_embedding(ej.vectorizer, processed_text).embedding]>>)

\* the ranking, the texts normalised
PipelineProcessed(job_text, resume_text, order, processed_jd_text, processed_text) ==
    PipelineEncoded(job_text, resume_text, order, processed_jd_text, processed_text,
                    get_embedding(None, processed_jd_text))

Pipeline(job_text, resume_text, order) ==
    PipelineProcessed(job_text, resume_text, order,
                      preprocess_text(job_text), preprocess_text(resume_text))

InitPipeline ==
    /\ \E n \in 1..MaxYears, m \in 1..MaxYears :
           call = [fn |-> "pipeline", n |-> n, m |-> m, job |-> JobRequiring(n),
                   resume |-> ResumeStating(m), ret |-> <<>>, done |-> FALSE]
    /\ AppStarted

ReturnPipeline ==
    /\ call.fn = "pipeline" /\ ~call.done
    /\ call' = [call EXCEPT !.ret = Pipeline(call.job, call.resume, hash_order),
                            !.done = TRUE]

NextPipeline == ReturnPipeline /\ UNCHANGED appvars
SpecPipeline == InitPipeline /\ [][NextPipeline]_vars

-----------------------------------------------------------------------------
(* Calls of get_embedding from several threads of one process: the threads  *)
(* share the module's global vectorizer, and a thread may be suspended      *)
(* between any two statements of get_embedding                              *)

MaxThreads == 3

Threads == 1..MaxThreads

ThreadTexts == {"", "python developer", "java developer java"}

\* everything of the application but the global vectorizer
threadframe ==
    <<hash_order, session_state, pc, main_job_description, uploaded_files,
      processed_jd, main_parsed_resumes, file_index, errors, main_ranked_resumes,
      encoded, encode_failures, vectorizer_at_start>>

\* each thread enters get_embedding(text); branch is the branch of line 43
\* the call took
InitThreads ==
    /\ \E texts \in [Threads -> ThreadTexts] :
           call = [fn |-> "threads",
                   threads |-> [t \in Threads |->
                                   [text |-> texts[t], at |-> "is_none", branch |-> "none",
                                    ret |-> ZeroVector, failed |-> FALSE]]]
    /\ AppStarted
    /\ hash_order = "insertion"

AtLine(t, at) == call.fn = "threads" /\ call.threads[t].at = at

\* line 32: if vectorizer is None
TestNone(t) ==
    /\ AtLine(t, "is_none")
    /\ call' = [call EXCEPT !.threads[t].at =
                    IF vectorizer = None THEN "load_model" ELSE "not_text"]
    /\ UNCHANGED <<vectorizer, threadframe>>

\* line 33: load_model() assigns a new TfidfVectorizer to the global
LoadModel(t) ==
    /\ AtLine(t, "load_model")
    /\ vectorizer' = Unfitted
    /\ call' = [call EXCEPT !.threads[t].at = "not_text"]
    /\ UNCHANGED threadframe

\* lines 35-37: if not text: return np.zeros(384)
TestText(t) ==
    /\ AtLine(t, "not_text")
    /\ call' = [call EXCEPT !.threads[t].at =
                    IF call.threads[t].text = "" THEN "returned" ELSE "hasattr"]
    /\ UNCHANGED <<vectorizer, threadframe>>

\* line 43: if not hasattr(vectorizer, 'vocabulary_')
TestFitted(t) ==
    /\ AtLine(t, "hasattr")
    /\ call' = [call EXCEPT
                    !.threads[t].at = IF IsFitted(vectorizer) THEN "transform"
                                      ELSE "fit_transform",
                    !.threads[t].branch = IF IsFitted(vectorizer) THEN "transform"
                                          ELSE "fit"]
    /\ UNCHANGED <<vectorizer, threadframe>>

\* lines 44, 49-57: vectorizer.fit_transform([text]), a ValueError for a text
\* without terms being caught at line 58
FitTransform(t) ==
    /\ AtLine(t, "fit_transform")
    /\ IF TfidfTokens(call.threads[t].text) = <<>>
       THEN /\ call' = [call EXCEPT !.threads[t].at = "returned",
                                    !.threads[t].failed = TRUE]
            /\ UNCHANGED vectorizer
       ELSE /\ vectorizer' = fit_transform(call.threads[t].text).vectorizer
            /\ call' = [call EXCEPT
                            !.threads[t].at = "returned",
                            !.threads[t].ret = fit_transform(call.threads[t].text).embedding]
    /\ UNCHANGED threadframe

\* lines 47-57: vectorizer.transform([text]), the NotFittedError of a
\* vectorizer without vocabulary being caught at line 58
Transform(t) ==
    /\ AtLine(t, "transform")
    /\ call' = IF IsFitted(vectorizer)
               THEN [call EXCEPT
                        !.threads[t].at = "returned",
                        !.threads[t].ret = PadOrTruncate(Weights(vectorizer.vocabulary,
                                                                 call.threads[t].text))]
               ELSE [call EXCEPT !.threads[t].at = "returned",
                                 !.threads[t].failed = TRUE]
    /\ UNCHANGED <<vectorizer, threadframe>>

NextThreads ==
    \E t \in Threads :
        \/ TestNone(t)
        \/ LoadModel(t)
        \/ TestText(t)
        \/ TestFitted(t)
        \/ FitTransform(t)
        \/ Transform(t)

SpecThreads == InitThreads /\ [][NextThreads]_vars

-----------------------------------------------------------------------------
(* Properties of rank_resumes *)

RankReturned == call.fn = "rank_resumes" /\ call.done

\* C1: rank_resumes returns its results sorted descending by overall score:
\* every adjacent pair satisfies r[i].match_score >= r[i+1].match_score.
C1_SortedDescending ==
    RankReturned =>
        \A i \in 1..(Len(call.ret) - 1) :
            RLe(call.ret[i + 1].match_score, call.ret[i].match_score)

\* three resumes given in ascending order of score come back reversed
C1_Witness ==
    /\ RankReturned
    /\ Len(call.ret) = 3
    /\ \A i \in 1..3 : call.ret[i].filename = call.resumes[4 - i].filename
    /\ RLt(call.ret[3].match_score, call.ret[2].match_score)
    /\ RLt(call.ret[2].match_score, call.ret[1].match_score)

InPercentRange(x) == RLe(Zero, x) /\ RLe(x, Hundred)

\* C2: ranking N processed resumes against a job returns exactly N results,
\* one per input resume, and each result has match_score, skills_score,
\* education_score and experience_score in [0, 100], also for empty entity
\* lists, zero vectors and a job requirement of 0 years.
C2_OnePerResumeInRange ==
    (RankReturned /\ ~NoJob(call.job)) =>
        /\ Len(call.ret) = Len(call.resumes)
        /\ \A i \in DOMAIN call.resumes :
               Cardinality({k \in DOMAIN call.ret :
                   call.ret[k].filename = call.resumes[i].filename}) = 1
        /\ \A k \in DOMAIN call.ret :
               /\ InPercentRange(call.ret[k].match_score)
               /\ InPercentRange(call.ret[k].skills_score)
               /\ InPercentRange(call.ret[k].education_score)
               /\ InPercentRange(call.ret[k].experience_score)

\* a job requiring 0 years, a resume with every list empty and a zero vector,
\* and a resume whose education earns more points than the job has phrases
C2_Witness ==
    /\ RankReturned /\ ~NoJob(call.job)
    /\ call.job.entities.experience = <<"0 year of experience">>
    /\ Len(call.ret) = 3
    /\ \E k \in DOMAIN call.ret :
           /\ call.ret[k].entities.skills = <<>>
           /\ AllZero(call.ret[k].embedding)
           /\ call.ret[k].match_score = <<0, 1>>
    /\ \E k \in DOMAIN call.ret :
           /\ Len(call.ret[k].entities.education) = 3
           /\ call.ret[k].education_score = <<100, 1>>

\* C10: overall score = (similarity*0.4 + skills*0.3 + education*0.15 +
\* experience*0.15) * 100, and the reported skills, education and experience
\* scores are the sub-scores in [0, 1] multiplied by 100.
C10_WeightedOverall ==
    (RankReturned /\ ~NoJob(call.job)) =>
        \A k \in DOMAIN call.ret :
            LET r   == call.ret[k]
                sim == calculate_similarity(call.job.embedding, r.embedding)
                sk  == calculate_skills_match(call.job.entities.skills, r.entities.skills)
                ed  == calculate_education_match(call.job.entities.education,
                                                 r.entities.education)
                ex  == calculate_experience_match(call.job.entities.experience,
                                                  r.entities.experience)
                \* the four terms in units of 1/2000: 0.4 = 800, 0.3 = 600, 0.15 = 300
                sum == 800 * sim[1] * sk[2] * ed[2] * ex[2]
                         + 600 * sk[1] * sim[2] * ed[2] * ex[2]
                         + 300 * ed[1] * sim[2] * sk[2] * ex[2]
                         + 300 * ex[1] * sim[2] * sk[2] * ed[2]
            IN  /\ r.match_score[1] * 20 * sim[2] * sk[2] * ed[2] * ex[2]
                       = sum * r.match_score[2]
                /\ r.skills_score[1] * sk[2] = 100 * sk[1] * r.skills_score[2]
                /\ r.education_score[1] * ed[2] = 100 * ed[1] * r.education_score[2]
                /\ r.experience_score[1] * ex[2] = 100 * ex[1] * r.experience_score[2]

\* a result whose four sub-scores all differ: 0.63, 0.5, 1 and 0.4 give 61.2
C10_Witness ==
    /\ RankReturned /\ ~NoJob(call.job)
    /\ \E k \in DOMAIN call.ret :
           /\ calculate_similarity(call.job.embedding, call.ret[k].embedding) = <<63, 100>>
           /\ call.ret[k].skills_score = <<50, 1>>
           /\ call.ret[k].education_score = <<100, 1>>
           /\ call.ret[k].experience_score = <<40, 1>>
           /\ call.ret[k].match_score = <<306, 5>>

-----------------------------------------------------------------------------
(* Properties of the entity scores *)

\* x and y match when either contains the other, case-insensitively
BidirectionalMatch(x, y) ==
    LET a == Lower(x)
        b == Lower(y)
    IN  Contains(a, b) \/ Contains(b, a)

MatchesSome(x, ys) == \E k \in DOMAIN ys : BidirectionalMatch(x, ys[k])

\* C9: skills_score is 0 if the job or the resume has no skills, and otherwise
\* the number of job skills that bidirectionally match some resume skill,
\* case-insensitively, over the number of job skills; job {python, sql}
\* against resume {python programming} gives 0.5.
C9_SkillsScore ==
    call.done =>
        /\ (call.job = <<>> \/ call.resume = <<>>) => call.ret = <<0, 1>>
        /\ (call.job # <<>> /\ call.resume # <<>>) =>
               LET matched == {i \in DOMAIN call.job : MatchesSome(call.job[i], call.resume)}
               IN  call.ret[1] * Len(call.job) = Cardinality(matched) * call.ret[2]
        /\ (call.job = <<"python", "sql">> /\ call.resume = <<"python programming">>) =>
               call.ret = <<1, 2>>

\* a resume skill longer than the job skill it matches, and a match across case
C9_Witness ==
    /\ call.done
    /\ call.job = <<"Java", "sql">>
    /\ call.resume = <<"javascript", "python">>
    /\ call.ret = <<1, 2>>

\* the years each phrase of ExperiencePool states, read by hand
StatedYears(phrase) ==
    CASE phrase = "Python Developer, 5 years" -> {5}
      [] phrase = "3 years of experience"     -> {3}
      [] phrase = "0 year of experience"      -> {0}
      [] phrase = "2 years, then 12+ yrs"     -> {2, 12}
      [] OTHER                                -> {}

YearsStated(exps) == UNION {StatedYears(exps[k]) : k \in DOMAIN exps}
Largest(S) == CHOOSE x \in S : \A y \in S : y <= x

\* C8: experience_score is 1 if the job lists no experience and 0 if the job
\* does and the resume does not; if both sides state years it is 1 when the
\* largest resume year reaches the largest job year and their quotient
\* otherwise (5 against 3 gives 0.6); otherwise it is min(1, k / |job|), k the
\* number of job phrases that bidirectionally match some resume phrase.
C8_ExperienceScore ==
    call.done =>
        LET jy == YearsStated(call.job)
            ry == YearsStated(call.resume)
            k  == Cardinality({i \in DOMAIN call.job : MatchesSome(call.job[i], call.resume)})
        IN  /\ call.job = <<>> => call.ret = <<1, 1>>
            /\ (call.job # <<>> /\ call.resume = <<>>) => call.ret = <<0, 1>>
            /\ (call.job # <<>> /\ call.resume # <<>> /\ jy # {} /\ ry # {}) =>
                   IF Largest(ry) >= Largest(jy)
                   THEN call.ret = <<1, 1>>
                   ELSE call.ret[1] * Largest(jy) = Largest(ry) * call.ret[2]
            /\ (call.job # <<>> /\ call.resume # <<>> /\ (jy = {} \/ ry = {})) =>
                   IF k >= Len(call.job)
                   THEN call.ret = <<1, 1>>
                   ELSE call.ret[1] * Len(call.job) = k * call.ret[2]
            /\ (call.job = <<"Python Developer, 5 years">>
                    /\ call.resume = <<"3 years of experience">>) => call.ret = <<3, 5>>

\* the largest year is not the first one on either side, and the resume falls short
C8_Witness ==
    /\ call.done
    /\ call.job = <<"2 years, then 12+ yrs">>
    /\ call.resume = <<"3 years of experience", "Python Developer, 5 years">>
    /\ call.ret = <<5, 12>>

\* the points one job phrase earns, in halves: 1 point for a bidirectional
\* match with some resume phrase, else half a point for a shared degree keyword
ClaimedEducationHalves(job_edu, resume_education) ==
    IF MatchesSome(job_edu, resume_education) THEN 2
    ELSE IF \E k \in DOMAIN resume_education :
                SharesKeyword(Lower(job_edu), Lower(resume_education[k])) THEN 1
    ELSE 0

RECURSIVE ClaimedEducationSum(_, _, _)
ClaimedEducationSum(job_education, resume_education, i) ==
    IF i > Len(job_education) THEN 0
    ELSE ClaimedEducationHalves(job_education[i], resume_education)
             + ClaimedEducationSum(job_education, resume_education, i + 1)

\* C3: education_score is 1 when the job lists no education, 0 when the job
\* does and the resume does not, and otherwise min(1, P / |job education|),
\* each job phrase adding to P exactly 1 for a bidirectional match, else
\* exactly 0.5 for a shared degree keyword, else 0.
C3_EducationScore ==
    call.done =>
        /\ call.job = <<>> => call.ret = <<1, 1>>
        /\ (call.job # <<>> /\ call.resume = <<>>) => call.ret = <<0, 1>>
        /\ (call.job # <<>> /\ call.resume # <<>>) =>
               call.ret = RMin(One, Frac(ClaimedEducationSum(call.job, call.resume, 1),
                                         2 * Len(call.job)))

-----------------------------------------------------------------------------
(* Properties of the pipeline *)

PipelineReturned == call.fn = "pipeline" /\ call.done

\* C4: through the full pipeline a job text requiring N years and a resume
\* text stating M years yield experience_score = 100 if M >= N and 100*M/N
\* otherwise, for every N, M >= 1, single-digit values included.
C4_PipelineExperience ==
    PipelineReturned =>
        /\ Len(call.ret) = 1
        /\ call.ret[1].experience_score =
               IF call.m >= call.n THEN Hundred ELSE Frac(100 * call.m, call.n)

-----------------------------------------------------------------------------
(* Properties of the vocabulary *)

\* C5: at the start of every ranking request the vocabulary is unfitted, so a
\* request does not depend on the documents encoded by an earlier request.
C5_VocabularyResetPerRequest ==
    pc # "idle" => ~IsFitted(vectorizer_at_start)

-----------------------------------------------------------------------------
(* Properties of a batch of resumes *)

\* process_resumes has gone through a batch of files
BatchDone == pc = "done" /\ processed_jd # None /\ uploaded_files # <<>>

Names(files) == [i \in 1..Len(files) |-> files[i].name]

Filenames(resumes) == [i \in 1..Len(resumes) |-> resumes[i].filename]

Members(xs) == {xs[i] : i \in 1..Len(xs)}

\* the files of the per-file errors of the run, in order
FileErrors ==
    LET OfFile(e) == e.kind = "file"
    IN  [i \in 1..Len(SelectSeq(errors, OfFile)) |-> SelectSeq(errors, OfFile)[i].file]

\* parsing the file or extracting the entities of its text raises
ParseOrExtractFails(file) == parse_resume(file).raised \/ file.oversize

\* C7 as stated: each file whose parsing, extraction or encoding fails gets a
\* per-file error and is excluded, every other file is kept in input order
\* and ranked, and there are as many ranked results as non-failing files.
C7_FailuresDoNotAbort ==
    LET Fails(f)  == ParseOrExtractFails(f) \/ f.name \in Members(encode_failures)
        Passes(f) == ~Fails(f)
    IN  BatchDone =>
            /\ FileErrors = Names(SelectSeq(uploaded_files, Fails))
            /\ Filenames(main_parsed_resumes) = Names(SelectSeq(uploaded_files, Passes))
            /\ Len(main_ranked_resumes) = Len(SelectSeq(uploaded_files, Passes))
            /\ Members(Filenames(main_ranked_resumes))
                   = Members(Names(SelectSeq(uploaded_files, Passes)))

\* C7: each file whose parsing or entity extraction raises gets a per-file
\* error and is excluded; every other file is kept in input order, also one
\* whose encoding failed, which gets the zero vector and no error; the kept
\* files are all ranked and the ranking stored, unless none is kept: then the
\* run ends without a ranking.
C7_ParseFailuresDoNotAbort ==
    LET Fails(f)  == ParseOrExtractFails(f)
        Passes(f) == ~Fails(f)
    IN  BatchDone =>
            /\ FileErrors = Names(SelectSeq(uploaded_files, Fails))
            /\ Filenames(main_parsed_resumes) = Names(SelectSeq(uploaded_files, Passes))
            /\ \A i \in 1..Len(main_parsed_resumes) :
                   main_parsed_resumes[i].filename \in Members(encode_failures)
                       => main_parsed_resumes[i].embedding = ZeroVector
            /\ Len(main_ranked_resumes) = Len(main_parsed_resumes)
            /\ Members(Filenames(main_ranked_resumes))
                   = Members(Filenames(main_parsed_resumes))
            /\ main_parsed_resumes # <<>> =>
                   /\ session_state.ranked_resumes = main_ranked_resumes
                   /\ session_state.show_results

\* a batch is done in which one file failed to parse or extract, the encoding
\* of another failed, and both kept files are ranked
C7_Witness ==
    /\ BatchDone
    /\ FileErrors # <<>>
    /\ encode_failures # <<>>
    /\ Len(uploaded_files) = 3
    /\ Len(main_ranked_resumes) = 2

-----------------------------------------------------------------------------
(* Properties of the skill lists of a result *)

\* C11: in every result matching_skills is the resume skills that
\* bidirectionally substring-match some job skill, in resume order, and
\* missing_skills is the job skills that match no resume skill, in job order;
\* so the missing skills number the job skills less those counted by
\* skills_score, and are all the job skills when the resume has none.
C11_MatchingAndMissingSkills ==
    (RankReturned /\ ~NoJob(call.job)) =>
        \A i \in DOMAIN call.ret :
            LET job_skills    == call.job.entities.skills
                resume_skills == call.ret[i].entities.skills
                Matched(x) == MatchesSome(x, job_skills)
                Missing(x) == ~MatchesSome(x, resume_skills)
                missing    == call.ret[i].missing_skills
                score      == call.ret[i].skills_score
            IN  /\ call.ret[i].matching_skills = SelectSeq(resume_skills, Matched)
                /\ missing = SelectSeq(job_skills, Missing)
                /\ (Len(job_skills) - Len(missing)) * 100 * score[2] = score[1] * Len(job_skills)
                /\ resume_skills = <<>> => missing = job_skills

\* a result some of whose skills match a job skill only as a substring and
\* some not at all, while a job skill is missing
C11_Witness ==
    /\ RankReturned /\ ~NoJob(call.job)
    /\ call.job.entities.skills = <<"python", "sql">>
    /\ \E i \in DOMAIN call.ret :
           /\ call.ret[i].entities.skills = <<"javascript", "sql">>
           /\ call.ret[i].matching_skills = <<"sql">>
           /\ call.ret[i].missing_skills = <<"python">>
    /\ \E i \in DOMAIN call.ret :
           /\ call.ret[i].entities.skills = <<"python programming">>
           /\ call.ret[i].matching_skills = <<"python programming">>
           /\ call.ret[i].missing_skills = <<"sql">>

-----------------------------------------------------------------------------
(* Properties of get_embedding *)

EncodeReturned == call.fn = "get_embedding" /\ call.done

\* how often a term is among the terms of a text
Occurrences(term, text) ==
    Cardinality({i \in 1..Len(TfidfTokens(text)) : TfidfTokens(text)[i] = term})

\* C12: get_embedding returns, in every state of the vectorizer, a vector of
\* exactly 384 dimensions: the zero vector for the empty text, the zero
\* vector when fitting fails inside it, and otherwise the weights of the
\* text under the vocabulary, padded with zeros to 384.
C12_EncodeReturnsVector ==
    EncodeReturned =>
        LET e == call.ret.embedding
            vocabulary == call.ret.vectorizer.vocabulary
        IN  /\ e.n = 384
            /\ Len(e.head) <= e.n
            /\ call.text = "" => (e = ZeroVector /\ ~call.ret.failed)
            /\ call.ret.failed => e = ZeroVector
            /\ (call.text # "" /\ ~call.ret.failed) =>
                   /\ Len(e.head) = Len(vocabulary)
                   /\ \A k \in 1..Len(vocabulary) :
                          e.head[k] = Occurrences(vocabulary[k], call.text)

\* a text has been weighed under a vocabulary fitted to another text and
\* padded with zeros
C12_Witness ==
    /\ EncodeReturned
    /\ call.vectorizer # None
    /\ call.vectorizer.vocabulary = <<"python", "sql", "java", "developer", "year">>
    /\ call.text = "java developer java"
    /\ call.ret.embedding = [n |-> 384, head |-> <<0, 0, 2, 1, 0>>]

-----------------------------------------------------------------------------
(* Properties of calculate_similarity *)

SimilarityReturned == call.fn = "calculate_similarity" /\ call.done

EntirelyZero(v) == \A i \in DOMAIN v.head : v.head[i] = 0

\* C13: calculate_similarity returns 0 whenever either vector is entirely
\* zero, both included, and for any two vectors its result lies in [0, 1].
C13_SimilarityRange ==
    SimilarityReturned =>
        /\ (EntirelyZero(call.embedding1) \/ EntirelyZero(call.embedding2)) =>
               call.ret = <<0, 1>>
        /\ RLe(Zero, call.ret)
        /\ RLe(call.ret, One)

\* a zero vector met a non-zero one, and the result is 0
C13_Witness ==
    /\ SimilarityReturned
    /\ call.embedding1.head = <<0, 0>>
    /\ call.embedding2.head = <<2, 1>>
    /\ call.ret = <<0, 1>>

-----------------------------------------------------------------------------
(* Properties of preprocess_text *)

NormalizeReturned == call.fn = "preprocess_text" /\ call.done

\* C14: preprocess_text is idempotent apart from the tokens a further
\* stop-word and length filtering pass removes: on its own result the URL,
\* e-mail, phone-number and punctuation steps remove nothing, so the second
\* result is the first with its tokens filtered once more.
C14_NormalizeIdempotent ==
    NormalizeReturned => call.twice = Join(FilterTokens(Tokenize(call.once)))

-----------------------------------------------------------------------------
(* Properties of a request with a blank job description or no file *)

\* an error for a blank job description or an empty upload is among es
InputError(es) == \E i \in 1..Len(es) : es[i].kind \in {"job_description", "upload"}

\* the inputs of the run are a blank job description or no file
InvalidInput == processed_jd = None \/ uploaded_files = <<>>

\* C15: a blank job description or an empty upload is reported, ends the run
\* without a call of rank_resumes, and leaves the stored ranked results and
\* the show_results flag as they were: the session changes only in a run
\* with a job description and files; and after the report the application
\* returns to where it takes the next request, which is ranked and stored
\* like any other.
C15_InputErrorHaltsOnlyTheCall ==
    /\ [](pc = "done" => (InputError(errors) <=> InvalidInput))
    /\ [](InputError(errors) => (pc = "done" /\ main_ranked_resumes = <<>>))
    /\ []((pc = "done" /\ ~InvalidInput /\ main_parsed_resumes # <<>>) =>
              /\ session_state.ranked_resumes = main_ranked_resumes
              /\ Len(main_ranked_resumes) = Len(main_parsed_resumes)
              /\ session_state.show_results)
    /\ [][/\ session_state' # session_state =>
                 (~InvalidInput /\ ~InputError(errors) /\ ~InputError(errors'))
          /\ InputError(errors) => (pc' = "idle" /\ session_state' = session_state)]_vars

\* no file was uploaded in a session holding the results of an earlier
\* request: the error is reported, nothing was ranked, the results are kept
C15_Witness ==
    /\ pc = "done"
    /\ uploaded_files = <<>>
    /\ processed_jd # None
    /\ InputError(errors)
    /\ main_ranked_resumes = <<>>
    /\ session_state.show_results
    /\ Len(session_state.ranked_resumes) = 2

-----------------------------------------------------------------------------
(* Properties of rank_resumes on empty input *)

\* C16: rank_resumes returns the empty list, and raises nothing, when the job
\* is None or an empty dict or when the list of resumes is empty; no scorer
\* is applied then, for a scorer applied to a job without fields would fail.
C16_EmptyInputEmptyRanking ==
    (RankReturned /\ (NoJob(call.job) \/ call.resumes = <<>>)) =>
        call.ret = <<>>

\* a call without a job on a list of three resumes has returned
C16_Witness ==
    /\ RankReturned
    /\ call.job \in {None, EmptyDict}
    /\ Len(call.resumes) = MaxResumes
    /\ call.ret = <<>>

-----------------------------------------------------------------------------
(* Properties of get_embedding under interleaving *)

\* the calls that took the fit branch at line 43
Fitters == {t \in Threads : call.threads[t].branch = "fit"}

\* C17: under every interleaving of the calls of several threads at most one
\* call takes the fit branch, and a call that took the transform branch
\* transforms against a fitted vocabulary.
C17_FitOnceUnderInterleaving ==
    call.fn = "threads" =>
        /\ Cardinality(Fitters) <= 1
        /\ \A t \in Threads : AtLine(t, "transform") => IsFitted(vectorizer)

-----------------------------------------------------------------------------
(* Properties of the order of resumes of equal score *)

\* the place in the input list of the resume of a ranked entry
InputPlace(entry) ==
    CHOOSE i \in 1..Len(call.resumes) : call.resumes[i].filename = entry.filename

\* C18: of two ranked resumes with equal overall score the one that was
\* earlier in the input list is earlier in the ranking.
C18_StableTieBreak ==
    (RankReturned /\ ~NoJob(call.job)) =>
        \A p, q \in 1..Len(call.ret) :
            (p < q /\ call.ret[p].match_score = call.ret[q].match_score) =>
                InputPlace(call.ret[p]) < InputPlace(call.ret[q])

\* three resumes were ranked, the last of them came out first, and the other
\* two, different resumes of equal score, follow in their input order
C18_Witness ==
    /\ RankReturned /\ ~NoJob(call.job)
    /\ Len(call.ret) = 3
    /\ InputPlace(call.ret[1]) = 3
    /\ call.ret[2].match_score = call.ret[3].match_score
    /\ call.ret[2].text # call.ret[3].text
    /\ InputPlace(call.ret[2]) = 1
    /\ InputPlace(call.ret[3]) = 2

-----------------------------------------------------------------------------
(* Properties of the scores within one request *)

\* the scores of a ranked entry
ScoresOf(entry) ==
    <<entry.match_score, entry.skills_score, entry.education_score,
      entry.experience_score>>

\* the job description as process_job_description leaves it, e the outcome
\* of its get_embedding
AloneJob(jd, order, e) ==
    [text |-> jd, processed_text |-> PROCESSED[jd], entities |-> ENTITIES[order][jd],
     embedding |-> e.embedding]

\* the resume as the loop of process_resumes leaves it, e the outcome of its
\* get_embedding
AloneResume(resume_text, order, e) ==
    [filename |-> "", text |-> resume_text, processed_text |-> PROCESSED[resume_text],
     entities |-> ENTITIES[order][resume_text], embedding |-> e.embedding]

\* the resume of this text encoded right after the job description, ej the
\* outcome of the get_embedding of the job description
AloneAfter(resume_text, order, ej) ==
    AloneResume(resume_text, order,
                get_embedding(ej.vectorizer, PROCESSED[resume_text]))

\* the entry of a resume that is alone in its request, the vectorizer being
\* v when the request starts
AloneEntry(jd, resume_text, v, order) ==
    ScoreResume(AloneJob(jd, order, get_embedding(v, PROCESSED[jd])),
                AloneAfter(resume_text, order, get_embedding(v, PROCESSED[jd])))

RequestRanked == pc = "done" /\ main_ranked_resumes # <<>>

\* C19: the scores of every resume of a ranked request are those the resume
\* gets when it is alone in a request with the same job description and the
\* same vocabulary at its start: they depend on neither the other resumes
\* nor the order of the batch.
C19_ScoresIndependentOfTheBatch ==
    RequestRanked =>
        \A k \in 1..Len(main_ranked_resumes) :
            ScoresOf(main_ranked_resumes[k]) =
                ScoresOf(AloneEntry(main_job_description, main_ranked_resumes[k].text,
                                    vectorizer_at_start, hash_order))

\* a request that started without vocabulary and whose job description has no
\* term left: the first resume fitted the vocabulary, so that a later resume
\* was encoded otherwise than it is when alone, and two resumes were ranked
C19_Witness ==
    /\ RequestRanked
    /\ vectorizer_at_start = None
    /\ processed_jd.processed_text = ""
    /\ Len(main_ranked_resumes) = 2
    /\ \E k \in 1..Len(main_parsed_resumes) :
           main_parsed_resumes[k].embedding #
               AloneEntry(main_job_description, main_parsed_resumes[k].text,
                          vectorizer_at_start, hash_order).embedding

====
